---- MODULE Spec2Model ----
(***************************************************************************)
(* The self-updating process supervisor of panel_new, in its two variants: *)
(*   "autogit"  the mode-selecting entrypoint (src/Dockerfile, 70-146)     *)
(*   "flock"    the flock-based entrypoint (src/docker/git-entrypoint.sh)  *)
(* together with the checkout they poll, the supervised application and    *)
(* the environment (pushes to the remote, an external mutator of HEAD).    *)
(***************************************************************************)
EXTENDS Integers, FiniteSets, Sequences, TLC

\* ------------------------------------------------------------------ bounds
NumCommits == 3      \* commit identifiers 1..NumCommits
MaxMoves   == 1      \* environment changes (pushes, external HEAD mutations)
MaxCount   == 2      \* event counters saturate here
MaxPending == 2      \* maintenance requests in flight at once

\* --------------------------------------------------------------- sentinels
NoTick == -1         \* no tick has begun yet
None   == 0          \* a head that does not resolve ("none", "0", "1")
NoFile == 0          \* requirements.txt / .req.hash does not exist

Commits == 1 .. NumCommits
Heads   == Commits \cup {None}

\* The digest of requirements.txt in the working tree of commit c
\* (sha256sum requirements.txt); commit 1 carries no manifest, later commits
\* share a manifest pairwise.
ManifestOf(c) == IF c = None THEN NoFile ELSE c \div 2
Digests == {ManifestOf(c) : c \in Commits} \ {NoFile}

Inc(n) == IF n < MaxCount THEN n + 1 ELSE n

VARIABLES
  variant,     \* "autogit" | "flock"
  mode,        \* AUTOGIT_MODE: "off" | "update" | "watch"
  appKind,     \* the command: "ok" | "stubborn" (ignores SIGTERM) | "missing"
  repoUrlSet,  \* REPO_URL is non-empty (flock)
  peerShared,  \* the peer updater opens the same /.gitpull.lock file
  POLL,        \* AUTOGIT_POLL_SEC / GIT_INTERVAL, the argument of sleep
  remoteHead,  \* head of the branch on the remote
  originRef,   \* remote-tracking ref origin/<branch> of the checkout
  localHead,   \* HEAD of the checkout
  hasGit,      \* the checkout has a .git directory
  reqHash,     \* contents of .req.hash
  lockHeld,    \* executors holding an exclusive flock
  pc,          \* position of the supervisor's main shell
  upc,         \* position of each executor inside update_repo_once
  PREV, NEW_,  \* the shell variables PREV and NEW of the autogit loop
  child,       \* the process APP_PID names: "none" | "running" | "exited"
  childCode,   \* its exit status once exited
  ownExit,     \* it exited by itself, not from a signal of the supervisor
  termPending, \* it received SIGTERM and is still alive
  graceOver,   \* a grace period has passed since that SIGTERM
  orphans,     \* children still running that APP_PID no longer names
  supCode,     \* exit status of the supervisor once pc = "exited"
  sigs,        \* signals issued by the supervisor, by name
  spawns,      \* launches of the application
  pipRuns,     \* runs of pip install by the supervisor
  instFailed,  \* the supervisor's latest pip install failed
  pipRes,      \* this tick's install: "none" | "skip" | "ok" | "fail"
  changed,     \* this tick detected a change
  tickLog,     \* this tick's steps so far, in order
  moves,       \* environment changes so far
  gap,         \* seconds slept right before the latest tick began
  pidFile,     \* /tmp/app.pid: "none" | "written" | "missing"
  \* the dashboard script (src/app/static/js/gameservers/realm.js)
  loaded,      \* DOMContentLoaded has run: bind, initAuto, startLive
  es,          \* the variable es: "null", or its EventSource "open" | "closed"
  esOpen,      \* console EventSources that are open
  liveOn,      \* #live-toggle is checked
  lsAuto,      \* localStorage gs_auto_<realm>: "null" | "0" | "1"
  lsInt,       \* localStorage gs_auto_int_<realm> ("" when absent)
  autoOn,      \* #autorefresh is checked
  intValue,    \* value of #refresh-interval
  timer,       \* the variable timer: an interval id, 0 for null
  maintTimer,  \* the variable maintTimer: an interval id, 0 for null
  maintUntil,  \* the variable maintUntil: 0, or 1 for a deadline
  maintOn,     \* #maint-toggle is checked
  intervals,   \* active setInterval timers: records [id, kind, ms]
  posts,       \* maintenance requests in flight, by awaiting handler
  offDone,     \* the toggle-off handler completed, no preset click since
  initSynced   \* the checkout started in sync with the remote

vars == << variant, mode, appKind, repoUrlSet, peerShared, remoteHead,
           originRef, localHead, hasGit, reqHash, lockHeld, pc, upc, PREV,
           NEW_, child, childCode, ownExit, termPending, graceOver, orphans,
           supCode, sigs, spawns, pipRuns, instFailed, pipRes, changed,
           tickLog, moves, initSynced, POLL, gap, pidFile, loaded, es,
           esOpen, liveOn, lsAuto, lsInt, autoOn, intValue, timer,
           maintTimer, maintUntil, maintOn, intervals, posts, offDone >>

config == << variant, mode, appKind, repoUrlSet, peerShared, initSynced,
             POLL >>
repo   == << remoteHead, originRef, localHead, hasGit, reqHash >>
proc   == << child, childCode, ownExit, termPending, graceOver, orphans >>
tally  == << sigs, spawns, pipRuns, instFailed >>
page   == << loaded, es, esOpen, liveOn, lsAuto, lsInt, autoOn, intValue,
             timer, maintTimer, maintUntil, maintOn, intervals, posts,
             offDone >>

Execs == {"sup", "poll", "peer"}

Manifest == ManifestOf(localHead)

\* The steps of a tick, recorded as the supervisor's shells execute them.
Log(ev) == tickLog' = Append(tickLog, ev)

\* A git fetch, with the failure that || true swallows noted after it.
LogFetch(ok) ==
  tickLog' = tickLog \o (IF ok THEN << "fetch" >>
                               ELSE << "fetch", "fetch-failed" >>)

\* ------------------------------------------------------------ the child
\* "${APP_CMD[@]}" & / "$@" & : the fork always succeeds and $! names the
\* forked process; a command that cannot be executed makes it exit 127.
Launch ==
  /\ child' = IF appKind = "missing" THEN "exited" ELSE "running"
  /\ childCode' = IF appKind = "missing" THEN 127 ELSE 0
  /\ ownExit' = FALSE
  /\ termPending' = FALSE
  /\ graceOver' = FALSE
  /\ orphans' = IF child = "running" THEN Inc(orphans) ELSE orphans
  /\ spawns' = Inc(spawns)

\* kill -TERM <pid> ... || true : a live child dies of the signal (status
\* 143) unless it ignores it; a dead one makes kill fail, which is swallowed.
SendTerm ==
  /\ sigs' = [sigs EXCEPT !["TERM"] = Inc(@)]
  /\ IF child = "running" /\ appKind = "ok"
       THEN /\ child' = "exited"
            /\ childCode' = 143
            /\ termPending' = FALSE
       ELSE /\ termPending' = (child = "running")
            /\ UNCHANGED << child, childCode >>
  /\ UNCHANGED << ownExit, graceOver, orphans >>

\* ------------------------------------------------- dependency installers
\* install_deps of the autogit entrypoint: pip runs whenever requirements.txt
\* exists; its failure is swallowed (|| true) and no digest is kept.
InstallDeps ==
  /\ IF Manifest # NoFile
       THEN /\ pipRuns' = Inc(pipRuns)
            /\ \E ok \in BOOLEAN : /\ pipRes' = IF ok THEN "ok" ELSE "fail"
                                   /\ instFailed' = ~ok
       ELSE /\ pipRes' = "skip"
            /\ UNCHANGED << pipRuns, instFailed >>
  /\ UNCHANGED reqHash

\* ------------------------------------------------ the autogit entrypoint
\* A run_app without exec: the application becomes a background child and
\* the script goes on into the loop.
RunAppBackground ==
  /\ pc' = "sleep"
  /\ Launch
  /\ UNCHANGED supCode

\* run_app: exec replaces the shell by the application; a command that
\* cannot be executed ends the non-interactive shell with 127.
RunApp ==
  IF appKind = "missing"
    THEN /\ pc' = "exited"
         /\ supCode' = 127
         /\ UNCHANGED << proc, spawns >>
    ELSE /\ pc' = "execed"
         /\ Launch
         /\ UNCHANGED supCode

\* Lines 87-116: mode off or no .git -> run_app; otherwise start the
\* application in the background and remember HEAD in PREV.
AG_Boot ==
  /\ variant = "autogit" /\ pc = "boot"
  /\ IF mode = "off" \/ ~hasGit
       THEN /\ RunApp
            /\ UNCHANGED PREV
       ELSE /\ Launch
            /\ PREV' = localHead
            /\ pc' = "sleep"
            /\ UNCHANGED supCode
  /\ UNCHANGED << page, config, repo, lockHeld, upc, NEW_, sigs, pipRuns,
                  instFailed, pipRes, changed, tickLog, moves, gap, pidFile >>

\* A loop that fetches on every tick, whatever the mode.
AG_SleepAlwaysFetch ==
  /\ variant = "autogit" /\ pc = "sleep"
  /\ pc' = "fetch"
  /\ gap' = POLL
  /\ pipRes' = "none"
  /\ changed' = FALSE
  /\ tickLog' = << >>
  /\ UNCHANGED << page, config, repo, lockHeld, upc, PREV, NEW_, proc, supCode,
                  tally, moves, pidFile >>

\* while sleep "$POLL": the next tick begins.
AG_Sleep ==
  /\ variant = "autogit" /\ pc = "sleep"
  /\ pc' = IF mode = "update" THEN "fetch" ELSE "decide"
  /\ gap' = POLL
  /\ pipRes' = "none"
  /\ changed' = FALSE
  /\ tickLog' = << >>
  /\ UNCHANGED << page, config, repo, lockHeld, upc, PREV, NEW_, proc, supCode,
                  tally, moves, pidFile >>

\* git fetch --all -q || true
AG_Fetch ==
  /\ variant = "autogit" /\ pc = "fetch"
  /\ \E ok \in BOOLEAN :
       /\ originRef' = IF ok THEN remoteHead ELSE originRef
       /\ LogFetch(ok)
  /\ pc' = "decide"
  /\ UNCHANGED << page, config, remoteHead, localHead, hasGit, reqHash,
                  lockHeld, upc, PREV, NEW_, proc, supCode, tally, pipRes,
                  changed, moves, gap, pidFile >>

\* A loop that forgets PREV: every resolved head counts as a change.
AG_ChangedNoPrev(new) == new # None

\* NEW="$(origin_head)" / NEW="$(current_head)" and the comparison with PREV.
AG_Changed(new) ==
  IF mode = "update" THEN new # PREV /\ new # None ELSE new # PREV

AG_Decide ==
  /\ variant = "autogit" /\ pc = "decide"
  /\ LET new == IF mode = "update" THEN originRef ELSE localHead IN
       /\ NEW_' = new
       /\ changed' = AG_Changed(new)
       /\ pc' = IF ~AG_Changed(new) THEN "sleep"
                ELSE IF mode = "update" THEN "reset" ELSE "install"
  /\ UNCHANGED << page, config, repo, lockHeld, upc, PREV, proc, supCode,
                  tally, pipRes, tickLog, moves, gap, pidFile >>

\* A loop that goes from the reset straight to the restart.
AG_ResetThenKill ==
  /\ variant = "autogit" /\ pc = "reset"
  /\ \E ok \in BOOLEAN : localHead' = IF ok THEN NEW_ ELSE localHead
  /\ pc' = "kill"
  /\ Log("reset")
  /\ UNCHANGED << page, config, remoteHead, originRef, hasGit, reqHash,
                  lockHeld, upc, PREV, NEW_, proc, supCode, tally, pipRes,
                  changed, moves, gap, pidFile >>

\* git reset --hard "$NEW" -q || true
AG_Reset ==
  /\ variant = "autogit" /\ pc = "reset"
  /\ \E ok \in BOOLEAN : localHead' = IF ok THEN NEW_ ELSE localHead
  /\ pc' = "install"
  /\ Log("reset")
  /\ UNCHANGED << page, config, remoteHead, originRef, hasGit, reqHash,
                  lockHeld, upc, PREV, NEW_, proc, supCode, tally, pipRes,
                  changed, moves, gap, pidFile >>

AG_Install ==
  /\ variant = "autogit" /\ pc = "install"
  /\ InstallDeps
  /\ pc' = "kill"
  /\ Log("install")
  /\ UNCHANGED << page, config, remoteHead, originRef, localHead, hasGit,
                  lockHeld, upc, PREV, NEW_, proc, supCode, sigs, spawns,
                  changed, moves, gap, pidFile >>

\* kill -TERM "$APP_PID" 2>/dev/null || true
AG_Kill ==
  /\ variant = "autogit" /\ pc = "kill"
  /\ SendTerm
  /\ pc' = "wait"
  /\ Log("kill")
  /\ UNCHANGED << page, config, repo, lockHeld, upc, PREV, NEW_, supCode,
                  spawns, pipRuns, instFailed, pipRes, changed, moves, gap,
                  pidFile >>

\* A wait that returns at once, whether or not the child is gone.
AG_WaitNoBlock ==
  /\ variant = "autogit" /\ pc = "wait"
  /\ pc' = "relaunch"
  /\ UNCHANGED << page, config, repo, lockHeld, upc, PREV, NEW_, proc, supCode,
                  tally, pipRes, changed, tickLog, moves, gap, pidFile >>

\* wait "$APP_PID" 2>/dev/null || true : returns once the child is gone.
AG_Wait ==
  /\ variant = "autogit" /\ pc = "wait"
  /\ child # "running"
  /\ pc' = "relaunch"
  /\ UNCHANGED << page, config, repo, lockHeld, upc, PREV, NEW_, proc, supCode,
                  tally, pipRes, changed, tickLog, moves, gap, pidFile >>

\* A loop that remembers the head the checkout really has after the reset.
AG_RelaunchPrevIsHead ==
  /\ variant = "autogit" /\ pc = "relaunch"
  /\ Launch
  /\ PREV' = localHead
  /\ pc' = "sleep"
  /\ Log("start")
  /\ UNCHANGED << page, config, repo, lockHeld, upc, NEW_, supCode, sigs,
                  pipRuns, instFailed, pipRes, changed, moves, gap, pidFile >>

\* set +e; "${APP_CMD[@]}" & APP_PID=$!; set -e; PREV="$NEW"
AG_Relaunch ==
  /\ variant = "autogit" /\ pc = "relaunch"
  /\ Launch
  /\ PREV' = NEW_
  /\ pc' = "sleep"
  /\ Log("start")
  /\ UNCHANGED << page, config, repo, lockHeld, upc, NEW_, supCode, sigs,
                  pipRuns, instFailed, pipRes, changed, moves, gap, pidFile >>

\* -------------------------------------------------- the flock entrypoint
\* Every call of update_repo_once stands left of || or in the condition of
\* an if, where bash ignores errexit for the whole function body.
ErrexitIgnored == TRUE

\* The lock file is /.gitpull.lock, a path of the root filesystem and not of
\* the checkout: executors exclude each other only if they open the same file.
LockFile(e) == IF e = "peer" /\ ~peerShared THEN "peer" ELSE "self"

\* flock 9 : blocks until no other holder of the same file is left.
CanLock(e) == \A o \in lockHeld : LockFile(o) # LockFile(e)

Mine(e) == e # "peer"

\* LOCAL="$(git rev-parse HEAD || echo 0)";
\* REMOTE="$(git rev-parse origin/$REPO_BRANCH || echo 1)"; LOCAL != REMOTE
FL_Differs(loc, rem) == loc = None \/ rem = None \/ loc # rem

\* A return 1 that leaves descriptor 9 open: the lock survives the group.
RetKeepsLock(e, r) ==
  /\ upc' = [upc EXCEPT ![e] = IF e = "sup" THEN "off"
                               ELSE IF e = "poll" /\ r # 0 THEN "kill"
                               ELSE "entry"]
  /\ pc' = IF e = "sup" THEN "launch" ELSE pc
  /\ lockHeld' = IF r = 0 THEN lockHeld \ {e} ELSE lockHeld

\* The caller's continuation of update_repo_once returning r: the initial
\* call (|| true) goes on to launch, the poll loop kills on a non-zero
\* return, the peer updater only loops.
Ret(e, r) ==
  /\ upc' = [upc EXCEPT ![e] = IF e = "sup" THEN "off"
                               ELSE IF e = "poll" /\ r # 0 THEN "kill"
                               ELSE "entry"]
  /\ pc' = IF e = "sup" THEN "launch" ELSE pc
  /\ lockHeld' = lockHeld \ {e}

\* errexit ends the shell that runs the function.
Abort(e) ==
  /\ upc' = [upc EXCEPT ![e] = "off"]
  /\ lockHeld' = lockHeld \ {e}
  /\ IF e = "sup" THEN pc' = "exited" /\ supCode' = 1
                  ELSE UNCHANGED << pc, supCode >>

Alive(e) == e = "peer" \/ pc # "exited"

\* Line 50: update_repo_once || true
FL_Boot ==
  /\ variant = "flock" /\ pc = "boot"
  /\ pc' = "update0"
  /\ upc' = [upc EXCEPT !["sup"] = "entry"]
  /\ UNCHANGED << page, config, repo, lockHeld, PREV, NEW_, proc, supCode,
                  tally, pipRes, changed, tickLog, moves, gap, pidFile >>

\* Lines 25-26, entered from line 50 or after sleep "$GIT_INTERVAL": nothing
\* to do without REPO_URL; clone when there is no .git; else take the lock.
FL_Entry(e) ==
  /\ variant = "flock" /\ upc[e] = "entry" /\ Alive(e)
  /\ IF ~repoUrlSet THEN Ret(e, 0)
     ELSE /\ upc' = [upc EXCEPT ![e] = IF hasGit THEN "flock" ELSE "clone"]
          /\ UNCHANGED << pc, lockHeld >>
  /\ IF Mine(e) THEN pipRes' = "none" /\ changed' = FALSE /\ tickLog' = << >>
                ELSE UNCHANGED << pipRes, changed, tickLog >>
  /\ IF e = "poll" THEN gap' = POLL ELSE UNCHANGED gap
  /\ UNCHANGED << page, config, repo, PREV, NEW_, proc, supCode, tally, moves,
                  pidFile >>

\* git clone --depth 1 --branch ... (no lock is taken on this path)
FL_Clone(e) ==
  /\ variant = "flock" /\ upc[e] = "clone" /\ Alive(e)
  /\ \E ok \in BOOLEAN :
       IF ok /\ ~hasGit
         THEN /\ hasGit' = TRUE
              /\ localHead' = remoteHead
              /\ originRef' = remoteHead
         ELSE UNCHANGED << hasGit, localHead, originRef >>
  /\ upc' = [upc EXCEPT ![e] = "install"]
  /\ IF Mine(e) THEN changed' = TRUE ELSE UNCHANGED changed
  /\ IF Mine(e) THEN Log("clone") ELSE UNCHANGED tickLog
  /\ UNCHANGED << page, config, remoteHead, reqHash, lockHeld, pc, PREV, NEW_,
                  proc, supCode, tally, pipRes, moves, gap, pidFile >>

\* flock 9
FL_Flock(e) ==
  /\ variant = "flock" /\ upc[e] = "flock" /\ Alive(e)
  /\ CanLock(e)
  /\ lockHeld' = lockHeld \cup {e}
  /\ upc' = [upc EXCEPT ![e] = "fetch"]
  /\ IF Mine(e) THEN Log("lock") ELSE UNCHANGED tickLog
  /\ UNCHANGED << page, config, repo, pc, PREV, NEW_, proc, supCode, tally,
                  pipRes, changed, moves, gap, pidFile >>

\* git fetch origin "$REPO_BRANCH" || true; then the comparison: on a
\* difference go on to the reset, else leave the group and return 0.
FL_Fetch(e) ==
  /\ variant = "flock" /\ upc[e] = "fetch" /\ Alive(e)
  /\ \E ok \in BOOLEAN :
       LET fetched == IF ok THEN remoteHead ELSE originRef IN
         /\ originRef' = fetched
         /\ IF Mine(e) THEN LogFetch(ok) ELSE UNCHANGED tickLog
         /\ IF FL_Differs(localHead, fetched)
              THEN /\ upc' = [upc EXCEPT ![e] = "reset"]
                   /\ IF Mine(e) THEN changed' = TRUE ELSE UNCHANGED changed
                   /\ UNCHANGED << pc, lockHeld >>
              ELSE /\ Ret(e, 0)
                   /\ UNCHANGED changed
  /\ UNCHANGED << page, config, remoteHead, localHead, hasGit, reqHash, PREV,
                  NEW_, proc, supCode, tally, pipRes, moves, gap, pidFile >>

\* git reset --hard "origin/$REPO_BRANCH" || true
FL_Reset(e) ==
  /\ variant = "flock" /\ upc[e] = "reset" /\ Alive(e)
  /\ \E ok \in BOOLEAN :
       localHead' = IF ok /\ originRef # None THEN originRef ELSE localHead
  /\ upc' = [upc EXCEPT ![e] = "install"]
  /\ IF Mine(e) THEN Log("reset") ELSE UNCHANGED tickLog
  /\ UNCHANGED << page, config, remoteHead, originRef, hasGit, reqHash,
                  lockHeld, pc, PREV, NEW_, proc, supCode, tally, pipRes,
                  changed, moves, gap, pidFile >>

\* install_reqs; return 1.  pip runs when .req.hash is missing or differs
\* from the digest of requirements.txt; the digest is written after pip
\* unless errexit ended the shell at the failing pip.
FL_Install(e) ==
  /\ variant = "flock" /\ upc[e] = "install" /\ Alive(e)
  /\ IF Manifest # NoFile /\ (reqHash = NoFile \/ Manifest # reqHash)
       THEN \E ok \in BOOLEAN :
              /\ IF Mine(e)
                   THEN /\ pipRuns' = Inc(pipRuns)
                        /\ pipRes' = IF ok THEN "ok" ELSE "fail"
                        /\ instFailed' = ~ok
                   ELSE UNCHANGED << pipRuns, pipRes, instFailed >>
              /\ IF ok \/ ErrexitIgnored
                   THEN /\ reqHash' = Manifest
                        /\ Ret(e, 1)
                        /\ UNCHANGED supCode
                   ELSE /\ Abort(e)
                        /\ UNCHANGED reqHash
       ELSE /\ IF Mine(e) THEN pipRes' = "skip" ELSE UNCHANGED pipRes
            /\ Ret(e, 1)
            /\ UNCHANGED << reqHash, pipRuns, instFailed, supCode >>
  /\ IF Mine(e) THEN Log("install") ELSE UNCHANGED tickLog
  /\ UNCHANGED << page, config, remoteHead, originRef, localHead, hasGit, PREV,
                  NEW_, proc, sigs, spawns, changed, moves, gap, pidFile >>

\* Lines 52-67: start the application, write its pid, fork the poll loop.
FL_Launch ==
  /\ variant = "flock" /\ pc = "launch"
  /\ Launch
  /\ upc' = [upc EXCEPT !["poll"] = "entry"]
  /\ pc' = "wait"
  /\ pidFile' = "written"
  /\ UNCHANGED << page, config, repo, lockHeld, PREV, NEW_, supCode, sigs,
                  pipRuns, instFailed, pipRes, changed, tickLog, moves, gap >>

\* kill -TERM "$(cat /tmp/app.pid 2>/dev/null || echo 0)" ... || true, from
\* the poll loop.  With the file in place the signal goes to the pid it
\* holds.  Without it the target is 0, the caller's process group: the
\* application, the poll subshell itself and the main shell, which dies of
\* it unless it runs as pid 1 (the kernel then drops the signal).
FL_Kill ==
  /\ variant = "flock" /\ upc["poll"] = "kill" /\ Alive("poll")
  /\ SendTerm
  /\ IF pidFile = "written"
       THEN /\ upc' = [upc EXCEPT !["poll"] = "entry"]
            /\ UNCHANGED << pc, supCode >>
       ELSE /\ upc' = [upc EXCEPT !["poll"] = "off"]
            /\ \E pid1 \in BOOLEAN :
                 IF pid1 THEN UNCHANGED << pc, supCode >>
                         ELSE pc' = "killed" /\ supCode' = 143
  /\ Log("kill")
  /\ UNCHANGED << page, config, repo, lockHeld, PREV, NEW_, spawns, pipRuns,
                  instFailed, pipRes, changed, moves, gap, pidFile >>

\* wait "$APP_PID" is the script's last command: its status is the exit
\* status of the entrypoint, and the container's processes end with it.
FL_Wait ==
  /\ variant = "flock" /\ pc = "wait"
  /\ child # "running"
  /\ pc' = "exited"
  /\ supCode' = childCode
  /\ upc' = [upc EXCEPT !["poll"] = "off"]
  /\ lockHeld' = lockHeld \ {"poll"}
  /\ UNCHANGED << page, config, repo, PREV, NEW_, proc, tally, pipRes, changed,
                  tickLog, moves, gap, pidFile >>

\* ---------------------------------------------------------- environment
\* A push moves the head of the branch on the remote.
Push ==
  /\ moves < MaxMoves
  /\ variant = "flock" \/ mode = "update"
  /\ \E c \in Commits \ {remoteHead} : remoteHead' = c
  /\ moves' = moves + 1
  /\ UNCHANGED << page, config, originRef, localHead, hasGit, reqHash,
                  lockHeld, pc, upc, PREV, NEW_, proc, supCode, tally, pipRes,
                  changed, tickLog, gap, pidFile >>

\* Watch mode: another container moves HEAD of the bind-mounted checkout to
\* another commit.
ExternalHead ==
  /\ moves < MaxMoves
  /\ variant = "autogit" /\ mode = "watch" /\ hasGit
  /\ \E h \in Commits \ {localHead} : localHead' = h
  /\ moves' = moves + 1
  /\ UNCHANGED << page, config, remoteHead, originRef, hasGit, reqHash,
                  lockHeld, pc, upc, PREV, NEW_, proc, supCode, tally, pipRes,
                  changed, tickLog, gap, pidFile >>

\* The application ends by itself; after exec it is the entrypoint process.
ChildExit ==
  /\ child = "running"
  /\ \E code \in {0, 1} :
       /\ childCode' = code
       /\ IF pc = "execed" THEN pc' = "exited" /\ supCode' = code
                           ELSE UNCHANGED << pc, supCode >>
  /\ child' = "exited"
  /\ ownExit' = TRUE
  /\ termPending' = FALSE
  /\ UNCHANGED << page, config, repo, lockHeld, upc, PREV, NEW_, graceOver,
                  orphans, tally, pipRes, changed, tickLog, moves, gap,
                  pidFile >>

\* Time passes: the grace period after an unanswered SIGTERM runs out.
GraceElapses ==
  /\ child = "running" /\ termPending /\ ~graceOver
  /\ graceOver' = TRUE
  /\ UNCHANGED << page, config, repo, lockHeld, pc, upc, PREV, NEW_, child,
                  childCode, ownExit, termPending, orphans, supCode, tally,
                  pipRes, changed, tickLog, moves, gap, pidFile >>

\* /tmp/app.pid disappears (a cleaner of /tmp, an operator).
PidFileLost ==
  /\ pidFile = "written"
  /\ pidFile' = "missing"
  /\ UNCHANGED << page, config, repo, lockHeld, pc, upc, PREV, NEW_, proc,
                  supCode, tally, pipRes, changed, tickLog, moves, gap >>

\* SIGTERM reaches the entrypoint.  Neither script sets a trap, so the
\* default action ends the shell at once: nothing is forwarded and the
\* background child (and the flock poll subshell) live on.  After exec the
\* entrypoint process is the application itself.
SupTerm ==
  /\ pc \notin {"boot", "exited", "killed"}
  /\ IF pc = "execed"
       THEN /\ appKind = "ok"
            /\ pc' = "exited"
            /\ supCode' = 143
            /\ child' = "exited"
            /\ childCode' = 143
            /\ UNCHANGED << upc, lockHeld >>
       ELSE /\ pc' = "killed"
            /\ supCode' = 143
            /\ upc' = [upc EXCEPT !["sup"] = "off"]
            /\ lockHeld' = lockHeld \ {"sup"}
            /\ UNCHANGED << child, childCode >>
  /\ UNCHANGED << page, config, repo, PREV, NEW_, ownExit, termPending,
                  graceOver, orphans, tally, pipRes, changed, tickLog, moves,
                  gap, pidFile >>

\* --------------------------------------------------------- specification
\* The defaults of lines 76 (autogit) and 7 (flock), in seconds.
DefaultPoll == IF variant = "autogit" THEN 15 ELSE 60

PollValues == {0, 1, DefaultPoll}

\* The entrypoint at its start, for any configured interval.
InitSup ==
  /\ variant \in {"autogit", "flock"}
  /\ mode \in IF variant = "autogit" THEN {"off", "update", "watch"}
                                     ELSE {"update"}
  /\ appKind \in {"ok", "stubborn", "missing"}
  /\ repoUrlSet \in IF variant = "flock" THEN BOOLEAN ELSE {TRUE}
  /\ peerShared \in IF variant = "flock" THEN BOOLEAN ELSE {FALSE}
  /\ remoteHead \in Commits
  /\ hasGit \in BOOLEAN
  /\ originRef \in IF hasGit THEN Heads ELSE {None}
  /\ localHead \in IF hasGit THEN Heads ELSE {None}
  /\ reqHash \in {NoFile} \cup Digests
  /\ lockHeld = {}
  /\ pc = "boot"
  /\ upc = [e \in Execs |-> IF e = "peer" /\ variant = "flock"
                              THEN "entry" ELSE "off"]
  /\ PREV = None
  /\ NEW_ = None
  /\ child = "none"
  /\ childCode = 0
  /\ ownExit = FALSE
  /\ termPending = FALSE
  /\ graceOver = FALSE
  /\ orphans = 0
  /\ supCode = 0
  /\ sigs = [s \in {"TERM", "KILL"} |-> 0]
  /\ spawns = 0
  /\ pipRuns = 0
  /\ instFailed = FALSE
  /\ pipRes = "none"
  /\ changed = FALSE
  /\ tickLog = << >>
  /\ moves = 0
  /\ initSynced = (hasGit /\ localHead = remoteHead /\ originRef = remoteHead)
  /\ POLL \in PollValues
  /\ gap = NoTick
  /\ pidFile = "none"

\* No dashboard page is open.
PageUnloaded ==
  /\ loaded = FALSE
  /\ es = "null"
  /\ esOpen = 0
  /\ liveOn = FALSE
  /\ lsAuto = "null"
  /\ lsInt = ""
  /\ autoOn = FALSE
  /\ intValue = ""
  /\ timer = 0
  /\ maintTimer = 0
  /\ maintUntil = 0
  /\ maintOn = FALSE
  /\ intervals = {}
  /\ posts = [k \in {"preset", "on", "off", "auto"} |-> 0]
  /\ offDone = FALSE

\* Any configured interval.
InitAny == InitSup /\ PageUnloaded

\* The interval left at its default.
Init == InitAny /\ POLL = DefaultPoll

Updater(e) ==
  \/ FL_Entry(e)
  \/ FL_Clone(e)
  \/ FL_Flock(e)
  \/ FL_Fetch(e)
  \/ FL_Reset(e)
  \/ FL_Install(e)

Autogit ==
  \/ AG_Boot
  \/ AG_Sleep
  \/ AG_Fetch
  \/ AG_Decide
  \/ AG_Reset
  \/ AG_Install
  \/ AG_Kill
  \/ AG_Wait
  \/ AG_Relaunch

Flock ==
  \/ FL_Boot
  \/ FL_Launch
  \/ FL_Kill
  \/ FL_Wait
  \/ Updater("sup")
  \/ Updater("poll")

Peer == Updater("peer")

Environment ==
  \/ Push
  \/ ExternalHead
  \/ ChildExit
  \/ GraceElapses

Next == Autogit \/ Flock \/ Environment

Spec == Init /\ [][Next]_vars

\* Two updaters on one checkout: the flock entrypoint and a peer running the
\* same update_repo_once loop.
InitShared == Init /\ variant = "flock" /\ repoUrlSet /\ appKind = "ok"

NextShared ==
  \/ Flock
  \/ Peer
  \/ Push

SpecShared == InitShared /\ [][NextShared]_vars

\* The shells keep executing their scripts: every step of an entrypoint
\* that stays possible is eventually taken.  Nothing is assumed of the
\* environment.
FairSpec == Spec /\ WF_vars(Autogit) /\ WF_vars(Flock)

\* Two updaters that contend for one lock file while the remote stands
\* still (the checkout may start behind it).
InitContend == InitShared /\ peerShared

NextContend ==
  \/ Flock
  \/ Peer

\* Their shells keep running; a process blocked in flock(2) is woken when the
\* holder releases, and the holder sleeps a whole interval before it asks
\* again, so a waiter for which the lock becomes free again and again does
\* get it.
FairShared ==
  /\ InitContend /\ [][NextContend]_vars
  /\ WF_vars(Flock) /\ WF_vars(Peer)
  /\ \A e \in Execs : SF_vars(FL_Flock(e))

\* The same system for every configured poll interval.
SpecPoll == InitAny /\ [][Next]_vars

\* The same system when /tmp/app.pid can disappear.
NextPid == Next \/ PidFileLost

SpecPid == Init /\ [][NextPid]_vars

\* The same system when a termination signal can reach the entrypoint.
NextSignal == Next \/ SupTerm

SpecSignal == Init /\ [][NextSignal]_vars

\* ------------------------------------------------- the dashboard script
\* src/app/static/js/gameservers/realm.js: the console stream, the stats
\* polling timer and the maintenance countdown of one realm page.

sup == << config, repo, proc, tally, lockHeld, pc, upc, PREV, NEW_, supCode,
          pipRes, changed, tickLog, moves, gap, pidFile >>

\* Values the interval input and its stored copy can hold.
IntValues == {"", "abc", "-5", "0", "1", "3", "10"}

NaN == -1000000

\* parseInt(v, 10) on the values above.
ParseInt(v) ==
  CASE v = "-5" -> -5
    [] v = "0"  -> 0
    [] v = "1"  -> 1
    [] v = "3"  -> 3
    [] v = "10" -> 10
    [] OTHER    -> NaN

\* x || 3: NaN and 0 are falsy.
OrThree(x) == IF x = NaN \/ x = 0 THEN 3 ELSE x

\* Math.max(2, parseInt(value, 10) || 3)
RefreshSec(value) ==
  LET n == OrThree(ParseInt(value)) IN IF n < 2 THEN 2 ELSE n

\* Interval ids are never reused while a variable still holds them.
FreshId ==
  CHOOSE i \in 1..(Cardinality(intervals) + 3) :
    /\ i \notin {t.id : t \in intervals}
    /\ i \notin {timer, maintTimer}
    /\ \A j \in 1..(i - 1) :
         j \in {t.id : t \in intervals} \cup {timer, maintTimer}

ClearInterval(h) == {t \in intervals : t.id # h}

InFlight == posts["preset"] + posts["on"] + posts["off"] + posts["auto"]

Sent(k) == posts' = [posts EXCEPT ![k] = @ + 1]

\* The mutant opens a stream whether or not one exists.
StartLiveNoGuard ==
  /\ es' = "open"
  /\ esOpen' = esOpen + 1

StartLive ==
  IF es # "null"
    THEN UNCHANGED << es, esOpen >>
    ELSE /\ es' = "open"
         /\ esOpen' = esOpen + 1

StopLive ==
  /\ es' = "null"
  /\ esOpen' = IF es = "open" THEN esOpen - 1 ELSE esOpen

\* The mutant does not clear the previous timer.
ApplyTimerNoClear(checked, value) ==
  IF checked
    THEN /\ timer' = FreshId
         /\ intervals' = intervals \cup
              {[id |-> FreshId, kind |-> "stats",
                ms |-> RefreshSec(value) * 1000]}
    ELSE UNCHANGED << timer, intervals >>

ApplyTimer(checked, value) ==
  IF checked
    THEN /\ timer' = FreshId
         /\ intervals' = ClearInterval(timer) \cup
              {[id |-> FreshId, kind |-> "stats",
                ms |-> RefreshSec(value) * 1000]}
    ELSE /\ timer' = timer
         /\ intervals' = ClearInterval(timer)

\* DOMContentLoaded: bind, initAuto, fetchStats, startLive.
PageLoad ==
  /\ ~loaded
  /\ loaded' = TRUE
  /\ autoOn' = (lsAuto # "0")
  /\ intValue' = IF lsInt = "" THEN "3" ELSE lsInt
  /\ ApplyTimer(autoOn', intValue')
  /\ StartLive
  /\ UNCHANGED << sup, liveOn, lsAuto, lsInt, maintTimer, maintUntil,
                  maintOn, posts, offDone >>

LiveToggle ==
  /\ loaded
  /\ liveOn' = ~liveOn
  /\ IF liveOn' THEN StartLive ELSE StopLive
  /\ UNCHANGED << sup, loaded, lsAuto, lsInt, autoOn, intValue, timer,
                  maintTimer, maintUntil, maintOn, intervals, posts,
                  offDone >>

\* The server ends the stream for good: the object stays in es, closed.
StreamFails ==
  /\ es = "open"
  /\ es' = "closed"
  /\ esOpen' = esOpen - 1
  /\ UNCHANGED << sup, loaded, liveOn, lsAuto, lsInt, autoOn, intValue,
                  timer, maintTimer, maintUntil, maintOn, intervals, posts,
                  offDone >>

AutoChange ==
  /\ loaded
  /\ autoOn' = ~autoOn
  /\ lsAuto' = IF autoOn' THEN "1" ELSE "0"
  /\ ApplyTimer(autoOn', intValue)
  /\ UNCHANGED << sup, loaded, es, esOpen, liveOn, lsInt, intValue,
                  maintTimer, maintUntil, maintOn, posts, offDone >>

IntInput ==
  /\ loaded
  /\ \E v \in IntValues \ {intValue} :
       /\ intValue' = v
       /\ lsInt' = v
       /\ ApplyTimer(autoOn, v)
  /\ UNCHANGED << sup, loaded, es, esOpen, liveOn, lsAuto, autoOn,
                  maintTimer, maintUntil, maintOn, posts, offDone >>

\* A preset button: the handler sends the request and awaits it.
PresetClick ==
  /\ loaded /\ InFlight < MaxPending
  /\ Sent("preset")
  /\ offDone' = FALSE
  /\ UNCHANGED << sup, loaded, es, esOpen, liveOn, lsAuto, lsInt, autoOn,
                  intValue, timer, maintTimer, maintUntil, maintOn,
                  intervals >>

\* The preset handler after its await.
PresetResume ==
  /\ posts["preset"] > 0
  /\ posts' = [posts EXCEPT !["preset"] = @ - 1]
  /\ \E res \in {"ok", "fail", "throw"} :
       IF res = "ok"
         THEN /\ maintUntil' = 1
              /\ maintTimer' = FreshId
              /\ intervals' = ClearInterval(maintTimer) \cup
                   {[id |-> FreshId, kind |-> "maint", ms |-> 1000]}
         ELSE UNCHANGED << maintUntil, maintTimer, intervals >>
  /\ UNCHANGED << sup, loaded, es, esOpen, liveOn, lsAuto, lsInt, autoOn,
                  intValue, timer, maintOn, offDone >>

\* The maintenance toggle: the handler reads checked, sends, awaits.
MaintToggle ==
  /\ loaded /\ InFlight < MaxPending
  /\ maintOn' = ~maintOn
  /\ Sent(IF maintOn' THEN "on" ELSE "off")
  /\ offDone' = IF maintOn' THEN FALSE ELSE offDone
  /\ UNCHANGED << sup, loaded, es, esOpen, liveOn, lsAuto, lsInt, autoOn,
                  intValue, timer, maintTimer, maintUntil, intervals >>

\* The toggle handler after its await, for on = true.
ToggleOnResume ==
  /\ posts["on"] > 0
  /\ posts' = [posts EXCEPT !["on"] = @ - 1]
  /\ \E res \in {"ok", "fail", "throw"} :
       maintOn' = IF res = "fail" THEN FALSE ELSE maintOn
  /\ UNCHANGED << sup, loaded, es, esOpen, liveOn, lsAuto, lsInt, autoOn,
                  intValue, timer, maintTimer, maintUntil, intervals,
                  offDone >>

\* The toggle handler after its await, for on = false.
ToggleOffResume ==
  /\ posts["off"] > 0
  /\ posts' = [posts EXCEPT !["off"] = @ - 1]
  /\ \E res \in {"ok", "fail", "throw"} :
       /\ maintOn' = IF res = "fail" THEN TRUE ELSE maintOn
       /\ offDone' = IF res = "ok" THEN TRUE ELSE offDone
       /\ IF res = "throw"
            THEN UNCHANGED << intervals, maintUntil >>
            ELSE /\ intervals' = ClearInterval(maintTimer)
                 /\ maintUntil' = 0
  /\ UNCHANGED << sup, loaded, es, esOpen, liveOn, lsAuto, lsInt, autoOn,
                  intValue, timer, maintTimer >>

\* The countdown callback once the deadline has passed.
CountdownExpires ==
  /\ \E t \in intervals : t.kind = "maint"
  /\ InFlight < MaxPending
  /\ intervals' = ClearInterval(maintTimer)
  /\ maintUntil' = 0
  /\ Sent("auto")
  /\ maintOn' = FALSE
  /\ UNCHANGED << sup, loaded, es, esOpen, liveOn, lsAuto, lsInt, autoOn,
                  intValue, timer, maintTimer, offDone >>

\* The response to the countdown's own request: nothing awaits it.
AutoDone ==
  /\ posts["auto"] > 0
  /\ posts' = [posts EXCEPT !["auto"] = @ - 1]
  /\ UNCHANGED << sup, loaded, es, esOpen, liveOn, lsAuto, lsInt, autoOn,
                  intValue, timer, maintTimer, maintUntil, maintOn,
                  intervals, offDone >>

\* The server as the page finds it: the default entrypoint, idle.
SupervisorIdle ==
  /\ variant = "autogit" /\ mode = "off" /\ appKind = "ok"
  /\ repoUrlSet /\ ~hasGit /\ reqHash = NoFile /\ remoteHead = 1

\* The page as served, before DOMContentLoaded.
PageStart ==
  /\ loaded = FALSE
  /\ es = "null"
  /\ esOpen = 0
  /\ liveOn \in BOOLEAN
  /\ lsAuto \in {"null", "0", "1"}
  /\ lsInt \in IntValues
  /\ autoOn \in BOOLEAN
  /\ intValue = ""
  /\ timer = 0
  /\ maintTimer = 0
  /\ maintUntil = 0
  /\ maintOn \in BOOLEAN
  /\ intervals = {}
  /\ posts = [k \in {"preset", "on", "off", "auto"} |-> 0]
  /\ offDone = FALSE

InitRealm == InitSup /\ POLL = DefaultPoll /\ SupervisorIdle /\ PageStart

NextRealm ==
  \/ PageLoad
  \/ LiveToggle
  \/ StreamFails
  \/ AutoChange
  \/ IntInput
  \/ PresetClick
  \/ PresetResume
  \/ MaintToggle
  \/ ToggleOnResume
  \/ ToggleOffResume
  \/ CountdownExpires
  \/ AutoDone

SpecRealm == InitRealm /\ [][NextRealm]_vars

\* ------------------------------------------------------------------ claims
InTick == pc \in {"fetch", "decide", "reset", "install", "kill", "wait",
                  "relaunch"}

\* C1 (as stated): in update mode, whatever the initial state, as long as
\* the remote head has not changed the supervisor has sent no termination
\* signal and has started the child at most once.
C1_Original ==
  (mode = "update" /\ moves = 0) => (sigs["TERM"] = 0 /\ spawns <= 1)

\* C1 (amended): in update mode, starting from a checkout in sync with the
\* remote (HEAD and the remote-tracking ref equal the remote head), as long
\* as the remote head has not changed the supervisor has sent no termination
\* signal and has started the child at most once.
C1_SyncedNeverRestarts ==
  (mode = "update" /\ initSynced /\ moves = 0)
    => (sigs["TERM"] = 0 /\ spawns <= 1)

\* A tick of the update loop has compared the unchanged remote head with
\* PREV and gone back to sleep, the child still running.
C1_Witness ==
  /\ variant = "autogit" /\ mode = "update" /\ initSynced /\ moves = 0
  /\ pc = "sleep" /\ NEW_ = PREV /\ NEW_ = remoteHead
  /\ child = "running" /\ spawns = 1

\* C2: in update mode, once the tick that observes the remote head moved
\* from A to B has completed, exactly one restart has happened (one
\* termination, one new start) and HEAD of the checkout is B, also when the
\* hard reset can fail.
C2_Original ==
  (variant = "autogit" /\ mode = "update" /\ initSynced /\ moves = 1
     /\ pc = "sleep" /\ changed)
    => (localHead = remoteHead /\ sigs["TERM"] = 1 /\ spawns = 2)

\* C3: the installer runs if and only if the digest of the manifest differs
\* from the persisted last-installed digest: an install step that runs pip
\* found them different, and one that finds a manifest and skips pip found
\* them equal.
C3_Original ==
  [][ (pipRes = "none" /\ pipRes' # "none")
        => (pipRes' \in {"ok", "fail"}
              <=> (Manifest # NoFile /\ Manifest # reqHash)) ]_vars

\* C4: an install step whose pip fails leaves the persisted digest
\* (.req.hash) as it was.
C4_Original ==
  [][ (pipRes = "none" /\ pipRes' = "fail") => reqHash' = reqHash ]_vars

\* C5: when a change was detected, its install failed and the child was
\* terminated for it, the supervisor has not exited (it goes on to relaunch
\* the child).
C5_Original ==
  (changed /\ pipRes = "fail" /\ child = "exited" /\ childCode = 143)
    => pc # "exited"

\* C6: at every moment at most one process on the checkout is between the
\* acquisition and the release of its update lock.
C6_Original == Cardinality(lockHeld) <= 1

\* C7: once the grace period after SIGTERM has passed with the child still
\* alive, exactly one forceful kill has been issued; and the supervisor goes
\* past its wait (to relaunch or exit) only when the child is dead.
C7_Original ==
  /\ graceOver => sigs["KILL"] = 1
  /\ pc \in {"relaunch", "exited"} => child # "running"

\* C8: a tick that could not resolve the local or the remote head is a
\* no-op: no tick is past its decision (at a reset, an install, or the
\* termination and restart of the child) on an unresolved head.
C8_Original ==
  /\ (variant = "autogit" /\ pc \in {"reset", "install", "kill", "wait",
                                     "relaunch"})
       => NEW_ # None
  /\ (variant = "flock" /\ upc["poll"] = "reset")
       => (localHead # None /\ originRef # None)

\* C9: whenever the child has exited by itself, the supervisor eventually
\* exits with the child's exit code.
C9_Original ==
  [](\A code \in {0, 1} :
       (ownExit /\ child = "exited" /\ childCode = code)
         => <>(pc = "exited" /\ supCode = code))

\* C10: when the command cannot be spawned the supervisor never executes a
\* polling tick and never spawns again.
C10_Original ==
  appKind = "missing" => (~InTick /\ spawns <= 1)

\* C11: once the supervisor is gone after a termination signal, the child it
\* supervised is no longer running (the signal was forwarded and the
\* supervisor waited for the child before it exited).
C11_Original ==
  pc = "killed" => child # "running"

\* Children started by the supervisor that are alive.
AliveChildren == orphans + (IF child = "running" THEN 1 ELSE 0)

\* C12: at every moment at most one child started by the supervisor is
\* alive, and the supervisor stands before the start of a new child only
\* when the wait on the old one has returned with the old child gone.
C12_AtMostOneChild ==
  /\ AliveChildren <= 1
  /\ pc = "relaunch" => child # "running"

\* A restart has happened: the old child was terminated and a second one
\* runs alone.
C12_Witness ==
  /\ variant = "autogit" /\ pc = "sleep"
  /\ sigs["TERM"] = 1 /\ spawns = 2
  /\ child = "running" /\ AliveChildren = 1

\* Step a was recorded before step b in this tick.
Before(a, b) ==
  \E i, j \in DOMAIN tickLog : i < j /\ tickLog[i] = a /\ tickLog[j] = b

Logged(a) == \E i \in DOMAIN tickLog : tickLog[i] = a

\* C13: in a tick that issues the termination of the child, the dependency
\* install has finished before it, and (update mode, checkout present) the
\* hard reset has finished before the install; no reset or install follows
\* the termination, and the new start comes after it.
C13_ResetInstallThenRestart ==
  /\ Logged("kill") =>
       /\ Before("install", "kill")
       /\ (mode = "update" /\ ~Logged("clone")) => Before("reset", "install")
  /\ ~Before("kill", "install") /\ ~Before("kill", "reset")
  /\ ~Before("install", "reset")
  /\ Logged("start") => Before("kill", "start")

\* An update tick ran to its end: reset, install, termination, new start.
C13_Witness ==
  /\ variant = "autogit" /\ mode = "update" /\ changed /\ pc = "sleep"
  /\ tickLog = << "fetch", "reset", "install", "kill", "start" >>

\* C14: in watch mode no tick fetches or resets (the remote-tracking ref is
\* never written and HEAD moves only by the external mutator); a change is
\* acted on only when HEAD differs from PREV; a change runs install, then
\* one termination and one start, after which PREV is the observed head; and
\* there are never more restarts than external mutations of HEAD.
C14_WatchOnlyCompares ==
  /\ [](mode = "watch" =>
          /\ ~Logged("fetch") /\ ~Logged("reset")
          /\ pc \in {"install", "kill", "wait", "relaunch"} => NEW_ # PREV
          /\ (pc = "sleep" /\ changed) =>
               /\ tickLog = << "install", "kill", "start" >>
               /\ PREV = NEW_
          /\ sigs["TERM"] <= moves /\ spawns <= moves + 1)
  /\ [][ mode = "watch" =>
            /\ originRef' = originRef
            /\ localHead' # localHead => moves' = moves + 1 ]_vars

\* HEAD was moved once from outside, the child was restarted once, and a
\* later tick has found HEAD equal to PREV and left the child alone.
C14_Witness ==
  /\ variant = "autogit" /\ mode = "watch" /\ moves = 1
  /\ pc = "sleep" /\ ~changed /\ tickLog = << >>
  /\ NEW_ = PREV /\ PREV = localHead
  /\ sigs["TERM"] = 1 /\ spawns = 2 /\ child = "running"

\* C15: in mode off the entrypoint only ever stands at its start, is the
\* application itself (exec) or has ended; the application was started at
\* most once and runs only as the entrypoint process; no tick has begun, no
\* signal was sent, no install ran, and the checkout is never written.
C15_OffRunsDirectly ==
  /\ [](mode = "off" =>
          /\ pc \in {"boot", "execed", "exited"}
          /\ child = "running" => pc = "execed"
          /\ tickLog = << >> /\ pipRes = "none" /\ ~changed
          /\ sigs["TERM"] = 0 /\ pipRuns = 0 /\ spawns <= 1)
  /\ [][ mode = "off" => UNCHANGED << repo, lockHeld, PREV, NEW_ >> ]_vars

\* Mode off, with a checkout behind the remote: the application runs as the
\* entrypoint process.
C15_Witness ==
  /\ mode = "off" /\ hasGit /\ localHead # remoteHead
  /\ pc = "execed" /\ child = "running" /\ spawns = 1

\* C16: while the local head equals the remote head (a checkout that started
\* in sync, a remote that has not moved), no tick of the poll loop decides
\* Changed, none acquires the update lock, and the child is neither
\* terminated nor started again.
C16_Original ==
  (mode = "update" /\ initSynced /\ moves = 0
     /\ (variant = "flock" => upc["poll"] \notin {"off", "entry"}))
    => /\ ~changed
       /\ ~Logged("lock") /\ lockHeld = {}
       /\ ~Logged("kill") /\ ~Logged("start")

\* The shell that runs the main script / the function body for executor e
\* holds the update lock.
Locked(e) == e \in lockHeld

\* C17: a process that stands at the hard reset of the checkout holds the
\* update lock.
C17_Original ==
  /\ (variant = "autogit" /\ pc = "reset") => Locked("sup")
  /\ \A e \in {"sup", "poll"} : upc[e] = "reset" => Locked(e)

\* C18: a process that stands at any command that writes the checkout or
\* .req.hash (clone, fetch, reset, dependency install with the write of the
\* digest) holds the update lock, in every mode and on the first-run clone
\* path.
C18_Original ==
  /\ (variant = "autogit" /\ pc \in {"fetch", "reset", "install"})
       => Locked("sup")
  /\ \A e \in {"sup", "poll"} :
       upc[e] \in {"clone", "fetch", "reset", "install"} => Locked(e)

\* No tick is in progress: the loop sleeps before its next iteration.
TickOver ==
  IF variant = "autogit" THEN pc = "sleep"
                         ELSE pc = "wait" /\ upc["poll"] = "entry"

\* C19: at the end of a tick, if the latest install failed and the digest of
\* the manifest still differs from the last-installed digest, then this tick
\* has attempted the install (so a failure is retried on the next tick even
\* when no new commit appeared).
C19_Original ==
  (TickOver /\ instFailed /\ Manifest # NoFile /\ Manifest # reqHash)
    => pipRes \in {"ok", "fail"}

InSection(e) == upc[e] \in {"fetch", "reset", "install"}

\* C20: an executor holds the update lock only inside the fetch/reset/install
\* section, whichever way the section was left; the lock is not held by the
\* poll loop when it signals the child nor by the main shell when it starts
\* or waits for the child; and an executor blocked on the lock eventually
\* holds it (or its shell has ended with the entrypoint).
C20_LockOnlyInSection ==
  /\ [](/\ \A e \in Execs : Locked(e) => InSection(e)
        /\ upc["poll"] = "kill" => ~Locked("poll")
        /\ pc \in {"launch", "wait", "exited"} => ~Locked("sup"))
  /\ \A e \in Execs : (upc[e] = "flock") ~> (Locked(e) \/ upc[e] = "off")

\* The poll loop has left the section by return 1 and is about to signal
\* the child; the peer that shares the lock file holds the lock meanwhile.
C20_Witness ==
  /\ peerShared /\ upc["poll"] = "kill"
  /\ ~Locked("poll") /\ Locked("peer")

\* C21: a restart always makes progress: whenever the loop of the
\* mode-selecting entrypoint has signalled the child for a detected change,
\* it eventually has started a new child and is back at its sleep before the
\* next tick, also when the old child ignores SIGTERM.
C21_Original ==
  []((variant = "autogit" /\ pc = "wait") => <>(pc = "sleep"))

\* C22: a tick whose fetch failed changes nothing: it performs no reset and
\* no install, and it neither terminates nor starts the child.
C22_Original ==
  Logged("fetch-failed")
    => /\ ~Logged("reset") /\ ~Logged("install")
       /\ ~Logged("kill") /\ ~Logged("start")

\* The least delay the design allows between two ticks, in seconds.
MinSpacing == 1

\* C23: whatever the configured interval (0 included), every tick began
\* after a sleep of at least the minimum spacing.
C23_Original ==
  gap # NoTick => gap >= MinSpacing

\* C25: in the flock entrypoint the termination signal of a detected change
\* never reaches the supervisor: the main shell has not died of a signal and
\* the poll subshell lives as long as the main shell waits for the child,
\* whatever the state of /tmp/app.pid.
C25_Original ==
  variant = "flock"
    => /\ pc # "killed"
       /\ pc = "wait" => upc["poll"] # "off"

\* C24: in the update loop of the mode-selecting entrypoint a reset and a
\* restart are under way only for a resolved head that differs from PREV;
\* once the tick has handled it PREV is that head, whether or not the reset
\* succeeded; and from a synced start there are never more terminations
\* (one reset each) or restarts than moves of the remote head.
C24_OneRestartPerHead ==
  (variant = "autogit" /\ mode = "update")
    => /\ pc \in {"reset", "install", "kill", "wait", "relaunch"}
            => (NEW_ # PREV /\ NEW_ # None)
       /\ (pc = "sleep" /\ changed) => PREV = NEW_
       /\ initSynced => (sigs["TERM"] <= moves /\ spawns <= moves + 1)

\* The remote moved once, the reset failed, the child was restarted once,
\* and a later tick has fetched the same head and left the child alone.
C24_Witness ==
  /\ variant = "autogit" /\ mode = "update" /\ initSynced /\ moves = 1
  /\ pc = "sleep" /\ ~changed /\ tickLog = << "fetch" >>
  /\ NEW_ = PREV /\ PREV = remoteHead /\ localHead # PREV
  /\ sigs["TERM"] = 1 /\ spawns = 2 /\ child = "running"


StatsTimers == {t \in intervals : t.kind = "stats"}
MaintTimers == {t \in intervals : t.kind = "maint"}

\* C26: at most one console EventSource is open, and it is the one the
\* variable es refers to: startLive does nothing when a stream exists,
\* stopLive closes it and clears the reference.
C26_AtMostOneStream ==
  /\ esOpen <= 1
  /\ esOpen = 1 <=> es = "open"

C26_Witness ==
  /\ loaded /\ liveOn /\ es = "open" /\ esOpen = 1

\* C27: at most one stats polling timer is active, none when autorefresh
\* is unchecked on the loaded page, and its period is at least 2 seconds
\* whatever the interval value.
C27_OneStatsTimer ==
  /\ Cardinality(StatsTimers) <= 1
  /\ (loaded /\ ~autoOn) => StatsTimers = {}
  /\ \A t \in StatsTimers : t.ms >= 2000 /\ t.id = timer

C27_Witness ==
  /\ loaded /\ autoOn /\ intValue = "1"
  /\ \E t \in StatsTimers : t.ms = 2000

\* C28: once the maintenance toggle has been switched off and its handler
\* has run to completion, no maintenance countdown timer is active.
C28_Original ==
  offDone => MaintTimers = {}

====
